---------------------------- MODULE Spec2Model ----------------------------
(***************************************************************************)
(* A model of LarccEnv (model_training/larcc_env/base_env.py): the pose    *)
(* validator, the goal sampler, the reward engine with its history, the    *)
(* episode reset and the goal bookkeeping.                                 *)
(*                                                                         *)
(* Numbers are exact fixed-point integers:                                 *)
(*   positions            centimetres            (0.01 m)                  *)
(*   quaternion entries   1/13                   (unit quaternion: 13)     *)
(*   rotation entries     1/169                                            *)
(*   position reward      1/1000                                           *)
(*   orientation reward   1/169                                            *)
(*   reward               1/676000  (= 4 * 1000 * 169)                     *)
(*   joint angles         0.01 rad                                         *)
(* An Euler angle t is the pair <<c, s>> = d * <<cos(t/2), sin(t/2)>> for  *)
(* the denominator d of its axis (13 for roll, 1 for pitch and yaw), so    *)
(* that the Euler-to-quaternion product formula is computed exactly.       *)
(***************************************************************************)
EXTENDS Integers, Sequences, FiniteSets

VARIABLES
    random_start,      \* self.random_start
    pos_rewards,       \* self.pos_rewards
    quat_rewards,      \* self.quat_rewards
    bonus_rewards,     \* self.bonus_rewards
    goal,              \* self.goal (<<>> is the empty array the base class starts with)
    goal_is_callers,   \* self.goal is an array the caller of set_goal holds
    qpos,              \* the six joint positions of self.data.qpos
    eef,               \* pose of body "eef" as of the last mj_forward
    link_z,            \* world z of the six named links as of the last mj_forward
    dirty,             \* qpos was written since the last mj_forward
    target_pose,       \* model.body_pos / body_quat of body "target0"
    pc,                \* "idle", or the loop a running call is in
    goal_pos,          \* _sample_goal's local goal_pos
    attempts,          \* draws made by _reset_sim's running loop (counted to AttemptCap + 1)
    ncalls,            \* number of compute_reward calls so far
    last_bonus,        \* bonus term computed by the most recent compute_reward call
    steps,             \* number of _set_action calls so far
    ret                \* the last call: [op, param, val]; param and val keep their
                       \* types from call to call of one op

vars == <<random_start, pos_rewards, quat_rewards, bonus_rewards, goal,
          goal_is_callers, qpos,
          eef, link_z, dirty, target_pose, pc, goal_pos, attempts, ncalls,
          last_bonus, steps, ret>>

-----------------------------------------------------------------------------
(* Bounds of the model *)

MaxCalls == 2          \* compute_reward calls explored
MaxSteps == 1          \* _set_action calls explored
AttemptCap == 2        \* the attempt cap the specification asks of a rejection loop

-----------------------------------------------------------------------------
(* Construction parameters and fixed data, __init__ *)

KpNum == 2             \* kp = 0.5 = KpNum / WeightDen
KoNum == 1             \* ko = 0.25 = KoNum / WeightDen
WeightDen == 4
DistanceThresholdMm == 20      \* distance_threshold = 0.02

table_pos == <<10, 16, 38>>
table_size == <<120, 68, 76>>

initial_joint_values == <<0, -179, 158, -148, -163, -7>>

QuatScale == 13 * 1 * 1
RotScale == QuatScale * QuatScale
PiCentirad == 314

-----------------------------------------------------------------------------
(* utils: euler_to_quaternion, quaternion_to_transformation_matrix,        *)
(* point_distance, random_euler_angles                                     *)

RollAngles == { <<13, 0>>, <<12, 5>>, <<5, 12>>, <<0, 13>>, <<5, -12>>, <<12, -5>> }
PitchAngles == { <<1, 0>>, <<0, 1>> }
YawAngles == { <<1, 0>>, <<0, 1>> }

random_euler_angles == RollAngles \X PitchAngles \X YawAngles

euler_to_quaternion(roll, pitch, yaw) ==
    LET cr == roll[1]   sr == roll[2]
        cp == pitch[1]  sp == pitch[2]
        cy == yaw[1]    sy == yaw[2]
    IN  << cr * cp * cy + sr * sp * sy,
           sr * cp * cy - cr * sp * sy,
           cr * sp * cy + sr * cp * sy,
           cr * cp * sy - sr * sp * cy >>

quaternion_to_transformation_matrix(q) ==
    LET w == q[1]  x == q[2]  y == q[3]  z == q[4]
    IN  << << RotScale - 2 * (y * y + z * z), 2 * (x * y - w * z), 2 * (x * z + w * y), 0 >>,
           << 2 * (x * y + w * z), RotScale - 2 * (x * x + z * z), 2 * (y * z - w * x), 0 >>,
           << 2 * (x * z - w * y), 2 * (y * z + w * x), RotScale - 2 * (x * x + y * y), 0 >>,
           << 0, 0, 0, RotScale >> >>

Dot4(a, b) == a[1] * b[1] + a[2] * b[2] + a[3] * b[3] + a[4] * b[4]

MatVec(m, v) == << Dot4(m[1], v), Dot4(m[2], v), Dot4(m[3], v), Dot4(m[4], v) >>

RECURSIVE SqrtBetween(_, _, _)
SqrtBetween(n, lo, hi) ==
    IF lo = hi THEN lo
    ELSE LET mid == (lo + hi + 1) \div 2
         IN  IF mid * mid <= n THEN SqrtBetween(n, mid, hi)
             ELSE SqrtBetween(n, lo, mid - 1)

ISqrt(n) == SqrtBetween(n, 0, 8000)

\* Euclidean distance of two points given in centimetres, in millimetres (floor)
point_distance(a, b) ==
    LET dx == a[1] - b[1]  dy == a[2] - b[2]  dz == a[3] - b[3]
    IN  ISqrt(100 * (dx * dx + dy * dy + dz * dz))

-----------------------------------------------------------------------------
(* Comparisons with the two sines, on rotation entries (units of 1/169).   *)
(* sin(-pi/6) = -1/2; v < -sin(pi/4) iff v < 0 and 2 v^2 > 1.  No entry of  *)
(* a rotation of these units equals either threshold: RotScale is odd and  *)
(* sqrt(2) is irrational.                                                  *)

LtSinNegPiOver6(v) == 2 * v < -RotScale
LtNegSinPiOver4(v) == v < 0 /\ 2 * v * v > RotScale * RotScale

ZAxisOf(q) == MatVec(quaternion_to_transformation_matrix(q), <<0, 0, 1, 0>>)

-----------------------------------------------------------------------------
(* validate_initial_qpos: valid is what it returns, orient whether the     *)
(* orientation was evaluated (lines 96-106 were reached).                  *)
(* The bounds are computed in doubles.  Five of them come out so that the  *)
(* centimetre value on the bound compares as the exact decimal does        *)
(* (-0.4, 0.6, -0.18000000000000002, 0.4, 0.86).  The upper z bound,       *)
(* table_pos[2] + table_size[2]/2 + 0.6, comes out as 1.3599999999999999,  *)
(* below the double 1.36: a pose at z = 1.36 exceeds it.                   *)

Rejected == [valid |-> FALSE, orient |-> FALSE]

ValidateOrientation(z_axis) ==
    IF ~LtSinNegPiOver6(z_axis[3]) \/ ~LtNegSinPiOver4(z_axis[2])
    THEN TRUE
    ELSE FALSE

\* validate_initial_qpos without the upper bound on z
ValidateNoUpperZ(p) ==
    IF Len(p) # 7 THEN Rejected
    ELSE IF \/ 2 * p[1] < 2 * table_pos[1] - table_size[1] + 20
            \/ 2 * p[1] > 2 * table_pos[1] + table_size[1] - 20
    THEN Rejected
    ELSE IF \/ 2 * p[2] < 2 * table_pos[2] - table_size[2]
            \/ 2 * p[2] > 2 * table_pos[2] + table_size[2] - 20
    THEN Rejected
    ELSE IF 2 * p[3] < 2 * table_pos[3] + table_size[3] + 20
    THEN Rejected
    ELSE LET z_axis == ZAxisOf(SubSeq(p, 4, 7))
         IN  [valid |-> ValidateOrientation(z_axis), orient |-> TRUE]

validate_initial_qpos(p) ==
    IF Len(p) # 7 THEN Rejected
    ELSE IF \/ 2 * p[1] < 2 * table_pos[1] - table_size[1] + 20
            \/ 2 * p[1] > 2 * table_pos[1] + table_size[1] - 20
    THEN Rejected
    ELSE IF \/ 2 * p[2] < 2 * table_pos[2] - table_size[2]
            \/ 2 * p[2] > 2 * table_pos[2] + table_size[2] - 20
    THEN Rejected
    ELSE IF \/ 2 * p[3] < 2 * table_pos[3] + table_size[3] + 20
            \/ 2 * p[3] >= 2 * table_pos[3] + table_size[3] + 120
    THEN Rejected
    ELSE LET z_axis == ZAxisOf(SubSeq(p, 4, 7))
         IN  [valid |-> ValidateOrientation(z_axis), orient |-> TRUE]

-----------------------------------------------------------------------------
(* compute_reward, lines 111-126 *)

Neg4(q) == << -q[1], -q[2], -q[3], -q[4] >>

Max(a, b) == IF a >= b THEN a ELSE b
Min(a, b) == IF a <= b THEN a ELSE b
Clip(v, lo, hi) == Max(lo, Min(v, hi))

PosOf(p) == SubSeq(p, 1, 3)
QuatOf(p) == SubSeq(p, 4, 7)

PosReward(achieved_goal, g) ==
    Clip(1000 - point_distance(PosOf(g), PosOf(achieved_goal)), -1000, 1000)

\* the orientation reward without the double-cover maximum
QuatRewardSigned(achieved_goal, g) ==
    Dot4(QuatOf(g), QuatOf(achieved_goal))

QuatReward(achieved_goal, g) ==
    Max(Dot4(QuatOf(g), QuatOf(achieved_goal)),
        Dot4(QuatOf(g), Neg4(QuatOf(achieved_goal))))

(* The test pos_reward > 1 - self.distance_threshold of line 122 is made on  *)
(* doubles.  Off the threshold the millimetre values decide it.  Two        *)
(* positions exactly 2 cm apart differ along one axis only, and there the   *)
(* roundings of the doubles decide it; they are followed exactly, as        *)
(* offsets from the decimal values in units of 2^-59 / 100:                 *)
(*   - a coordinate k/100 is the nearest double of the decimal;             *)
(*   - the difference of the two coordinates is rounded to a double near    *)
(*     0.02 (spacing 2^-58, 200 units), and is the distance;                *)
(*   - 1 - distance and 1 - 0.02 are rounded to doubles near 0.98 (spacing  *)
(*     2^-53, 6400 units), and compared.                                    *)

RECURSIVE Pow2(_)
Pow2(n) == IF n = 0 THEN 1 ELSE 2 * Pow2(n - 1)

RECURSIVE Pow2Mod(_, _)
Pow2Mod(n, m) == IF n = 0 THEN 1 % m ELSE (2 * Pow2Mod(n - 1, m)) % m

RECURSIVE ILog2(_)
ILog2(n) == IF n < 2 THEN 0 ELSE 1 + ILog2(n \div 2)

RECURSIVE HalvingsBelowOne(_, _)
HalvingsBelowOne(k, n) ==
    IF k * Pow2(n) >= 100 THEN n ELSE HalvingsBelowOne(k, n + 1)

\* s with 2^52 <= (k/100) * 2^s < 2^53, for k > 0
MantissaShift(k) ==
    IF k >= 100 THEN 52 - ILog2(k \div 100) ELSE 52 + HalvingsBelowOne(k, 1)

\* (double nearest to k/100) - k/100
DoubleError(k) ==
    IF k = 0 THEN 0
    ELSE LET m == IF k < 0 THEN -k ELSE k
             s == MantissaShift(m)
             r == (m * Pow2Mod(s, 100)) % 100
             e == (IF r < 50 THEN -r ELSE 100 - r) * Pow2(59 - s)
         IN  IF k < 0 THEN -e ELSE e

\* v + off rounded to the nearest multiple of grid, ties to the even one,
\* as an offset from v; base is v modulo 2 * grid
RoundOffset(off, base, grid) ==
    LET v == (base + off) % (2 * grid)
        rem == v % grid
    IN  IF rem = 0 THEN off
        ELSE IF 2 * rem < grid THEN off - rem
        ELSE IF 2 * rem > grid THEN off + grid - rem
        ELSE IF v < grid THEN off - rem ELSE off + rem

\* pos_reward > 1 - distance_threshold for coordinates hi = lo + 2 on one axis
OverThresholdAtTwoCm(hi, lo) ==
    LET pos_error == RoundOffset(DoubleError(hi) - DoubleError(lo),
                                 (2 * Pow2Mod(59, 400)) % 400, 200)
        base == (98 * Pow2Mod(59, 12800)) % 12800
    IN  RoundOffset(-pos_error, base, 6400)
            > RoundOffset(-DoubleError(DistanceThresholdMm \div 10), base, 6400)

PosRewardOverThreshold(achieved_goal, g) ==
    LET a == PosOf(achieved_goal)
        b == PosOf(g)
        d == [i \in 1..3 |-> IF a[i] >= b[i] THEN a[i] - b[i] ELSE b[i] - a[i]]
    IN  IF d[1] * d[1] + d[2] * d[2] + d[3] * d[3]
              # (DistanceThresholdMm \div 10) * (DistanceThresholdMm \div 10)
        THEN PosReward(achieved_goal, g) > 1000 - DistanceThresholdMm
        ELSE LET i == CHOOSE j \in 1..3 : d[j] # 0
             IN  OverThresholdAtTwoCm(Max(a[i], b[i]), Min(a[i], b[i]))

BonusReward(pos_over_threshold, quat_reward) ==
    IF pos_over_threshold /\ 100 * quat_reward > 98 * RotScale
    THEN 1 ELSE 0

\* kp * pos_reward + ko * quat_reward + (1 - kp - ko) * bonus_reward, over 676000
RewardValue(pos_reward, quat_reward, bonus_reward) ==
    KpNum * pos_reward * RotScale
    + KoNum * quat_reward * 1000
    + (WeightDen - KpNum - KoNum) * bonus_reward * 1000 * RotScale

\* pos_rewards after compute_reward's append; likewise the two below
PosRewardsAfter(hist, pos_reward) == Append(hist, pos_reward)
\* the append to quat_rewards left out
QuatRewardsKept(hist, quat_reward) == hist
QuatRewardsAfter(hist, quat_reward) == Append(hist, quat_reward)
BonusRewardsAfter(hist, bonus_reward) == Append(hist, bonus_reward)

\* success recomputed from the arguments (the commented lines 203-204)
IsSuccessFromDistance(bonus, achieved_goal, desired_goal) ==
    point_distance(PosOf(achieved_goal), PosOf(desired_goal)) < DistanceThresholdMm

\* _is_success, lines 202-205: the arguments are not read
IsSuccessValue(bonus, achieved_goal, desired_goal) ==
    Len(bonus) > 0 /\ bonus[Len(bonus)] = 1

-----------------------------------------------------------------------------
(* Init: the state __init__ leaves *)

Zeros7 == <<0, 0, 0, 0, 0, 0, 0>>

\* What mj_forward can report for a joint configuration: the pose of "eef"
\* and the heights of the six links.  MuJoCo's kinematics is not modelled;
\* a configuration's outcome is one of these.
PoseFree == <<10, 16, 100, 13, 0, 0, 0>>        \* in the box, z axis up
PoseCone == <<10, 16, 100, 5, 12, 0, 0>>        \* in the box, forward and down
PoseLow == <<10, 16, 50, 13, 0, 0, 0>>          \* below the box
PoseTop == <<10, 16, 136, 13, 0, 0, 0>>         \* at z = 1.36
LinksClear == <<90, 90, 90, 90, 90, 90>>
LinksInTable == <<90, 90, 70, 90, 90, 90>>

Kinematics ==
    { [eef |-> PoseFree, link_z |-> LinksClear],
      [eef |-> PoseFree, link_z |-> LinksInTable],
      [eef |-> PoseCone, link_z |-> LinksClear],
      [eef |-> PoseLow, link_z |-> LinksClear] }

Init ==
    /\ random_start \in BOOLEAN
    /\ pos_rewards = <<>>
    /\ quat_rewards = <<>>
    /\ bonus_rewards = <<>>
    /\ goal = <<>>
    /\ goal_is_callers = FALSE
    /\ qpos = initial_joint_values
    /\ \E k \in Kinematics : eef = k.eef /\ link_z = k.link_z
    /\ dirty = FALSE
    /\ target_pose = <<>>
    /\ pc = "idle"
    /\ goal_pos = <<>>
    /\ attempts = 0
    /\ ncalls = 0
    /\ last_bonus = 0
    /\ steps = 0
    /\ ret = [op |-> "__init__", param |-> 0, val |-> FALSE]

-----------------------------------------------------------------------------
(* Operations *)

\* self._mujoco.mj_forward(self.model, self.data): derived poses are
\* recomputed; they change only if qpos was written since the last call.
mj_forward(k) ==
    /\ eef' = IF dirty THEN k.eef ELSE eef
    /\ link_z' = IF dirty THEN k.link_z ELSE link_z
    /\ dirty' = FALSE

compute_reward(achieved_goal, g) ==
    LET pos_reward == PosReward(achieved_goal, g)
        quat_reward == QuatReward(achieved_goal, g)
        bonus_reward == BonusReward(PosRewardOverThreshold(achieved_goal, g),
                                    quat_reward)
    IN  /\ pc = "idle"
        /\ ncalls < MaxCalls
        /\ pos_rewards' = PosRewardsAfter(pos_rewards, pos_reward)
        /\ quat_rewards' = QuatRewardsAfter(quat_rewards, quat_reward)
        /\ bonus_rewards' = BonusRewardsAfter(bonus_rewards, bonus_reward)
        /\ ncalls' = ncalls + 1
        /\ last_bonus' = bonus_reward
        /\ ret' = [op |-> "compute_reward", param |-> <<achieved_goal, g>>,
                   val |-> RewardValue(pos_reward, quat_reward, bonus_reward)]
        /\ UNCHANGED <<goal_is_callers, random_start, goal, qpos, eef, link_z, dirty,
                       target_pose, pc, goal_pos, attempts, steps>>

is_success(achieved_goal, desired_goal) ==
    /\ pc = "idle"
    /\ ret' = [op |-> "_is_success", param |-> <<>>,
               val |-> IsSuccessValue(bonus_rewards, achieved_goal, desired_goal)]
    /\ UNCHANGED <<goal_is_callers, random_start, pos_rewards, quat_rewards, bonus_rewards, goal,
                   qpos, eef, link_z, dirty, target_pose, pc, goal_pos, attempts,
                   ncalls, last_bonus, steps>>

validate(p) ==
    /\ pc = "idle"
    /\ ret' = [op |-> "validate_initial_qpos", param |-> p,
               val |-> validate_initial_qpos(p)]
    /\ UNCHANGED <<goal_is_callers, random_start, pos_rewards, quat_rewards, bonus_rewards, goal,
                   qpos, eef, link_z, dirty, target_pose, pc, goal_pos, attempts,
                   ncalls, last_bonus, steps>>

\* line 77 keeps the array it is given, without a copy
set_goal(g) ==
    /\ pc = "idle"
    /\ goal' = g
    /\ goal_is_callers' = TRUE
    /\ target_pose' = g
    /\ \E k \in Kinematics : mj_forward(k)
    /\ ret' = [op |-> "set_goal", param |-> g, val |-> <<>>]
    /\ UNCHANGED <<random_start, pos_rewards, quat_rewards, bonus_rewards, qpos,
                   pc, goal_pos, attempts, ncalls, last_bonus, steps>>

\* desired_goal without the copy
DesiredGoalShared(current_goal) ==
    IF Len(current_goal) > 0
    THEN [value |-> current_goal, shares |-> TRUE]
    ELSE [value |-> Zeros7, shares |-> FALSE]

\* _get_obs's desired_goal, lines 169-173: the array and whether it is the
\* array self.goal itself (shares) or one of its own
DesiredGoal(current_goal) ==
    IF Len(current_goal) > 0
    THEN [value |-> current_goal, shares |-> FALSE]
    ELSE [value |-> Zeros7, shares |-> FALSE]

get_obs ==
    /\ pc = "idle"
    /\ ret' = [op |-> "_get_obs", param |-> <<>>,
               val |-> [observation |-> qpos,
                        achieved_goal |-> eef,
                        desired_goal |-> DesiredGoal(goal)]]
    /\ UNCHANGED <<goal_is_callers, random_start, pos_rewards, quat_rewards, bonus_rewards, goal,
                   qpos, eef, link_z, dirty, target_pose, pc, goal_pos, attempts,
                   ncalls, last_bonus, steps>>

\* The caller writes v into the desired_goal array _get_obs returned it.
caller_writes_obs(v) ==
    /\ pc = "idle"
    /\ ret.op = "_get_obs"
    /\ goal' = IF ret.val.desired_goal.shares THEN v ELSE goal
    /\ ret' = [op |-> "caller_write", param |-> v,
               val |-> [ret.val EXCEPT !.desired_goal.value = v]]
    /\ UNCHANGED <<goal_is_callers, random_start, pos_rewards, quat_rewards, bonus_rewards, qpos,
                   eef, link_z, dirty, target_pose, pc, goal_pos, attempts,
                   ncalls, last_bonus, steps>>

\* The caller writes v into the array it gave set_goal, which is self.goal.
caller_writes_goal(v) ==
    /\ pc = "idle"
    /\ goal_is_callers
    /\ goal' = v
    /\ ret' = [op |-> "caller_write_goal", param |-> v, val |-> <<>>]
    /\ UNCHANGED <<goal_is_callers, random_start, pos_rewards, quat_rewards,
                   bonus_rewards, qpos, eef, link_z, dirty, target_pose, pc,
                   goal_pos, attempts, ncalls, last_bonus, steps>>

\* lines 220-221 assign goal[:3] and goal[3:] to a 3- and a 4-element row:
\* numpy raises for the empty goal, before anything is written
render_callback ==
    /\ pc = "idle"
    /\ \/ /\ Len(goal) = 7
          /\ target_pose' = goal
          /\ \E k \in Kinematics : mj_forward(k)
          /\ ret' = [op |-> "_render_callback", param |-> <<>>, val |-> "done"]
       \/ /\ Len(goal) # 7
          /\ ret' = [op |-> "_render_callback", param |-> <<>>, val |-> "ValueError"]
          /\ UNCHANGED <<target_pose, eef, link_z, dirty>>
    /\ UNCHANGED <<goal_is_callers, random_start, pos_rewards, quat_rewards, bonus_rewards, goal,
                   qpos, pc, goal_pos, attempts, ncalls, last_bonus, steps>>

ScaledAction(action) ==
    [i \in 1..6 |-> IF i <= 2 THEN 8 * action[i] ELSE 12 * action[i]]

NewJointPos(current_joint_pos, action) ==
    [i \in 1..6 |->
        Clip(current_joint_pos[i] + ScaledAction(action)[i], -PiCentirad, PiCentirad)]

set_action(action) ==
    /\ pc = "idle"
    /\ steps < MaxSteps
    /\ qpos' = NewJointPos(qpos, action)
    /\ dirty' = TRUE
    /\ steps' = steps + 1
    /\ ret' = [op |-> "_set_action", param |-> action, val |-> <<>>]
    /\ UNCHANGED <<goal_is_callers, random_start, pos_rewards, quat_rewards, bonus_rewards, goal,
                   eef, link_z, target_pose, pc, goal_pos, attempts, ncalls,
                   last_bonus>>

step_callback ==
    /\ pc = "idle"
    /\ \E k \in Kinematics : mj_forward(k)
    /\ ret' = [op |-> "_step_callback", param |-> <<>>, val |-> <<>>]
    /\ UNCHANGED <<goal_is_callers, random_start, pos_rewards, quat_rewards, bonus_rewards, goal,
                   qpos, target_pose, pc, goal_pos, attempts, ncalls, last_bonus,
                   steps>>

-----------------------------------------------------------------------------
(* _sample_goal, lines 181-200 *)

UniformX == (-(table_size[1] \div 2) + 10) .. (table_size[1] \div 2 - 10)
UniformY == (-(table_size[2] \div 2)) .. (table_size[2] \div 2 - 10)
UniformZ == 10 .. 60

GoalPos(ux, uy, uz) ==
    << table_pos[1] + ux,
       table_pos[2] + uy,
       table_pos[3] + table_size[3] \div 2 + uz >>

\* the cone test with "or" for "and"
GoalOrientationEither(z_axis) ==
    LtSinNegPiOver6(z_axis[3]) \/ LtNegSinPiOver4(z_axis[2])

GoalOrientationOk(z_axis) ==
    LtSinNegPiOver6(z_axis[3]) /\ LtNegSinPiOver4(z_axis[2])

sample_goal_start(ux, uy, uz) ==
    /\ pc = "idle"
    /\ ux \in UniformX /\ uy \in UniformY /\ uz \in UniformZ
    /\ goal_pos' = GoalPos(ux, uy, uz)
    /\ pc' = "sample_loop"
    /\ ret' = [op |-> "_sample_goal", param |-> <<>>, val |-> <<>>]
    /\ UNCHANGED <<goal_is_callers, random_start, pos_rewards, quat_rewards, bonus_rewards, goal,
                   qpos, eef, link_z, dirty, target_pose, attempts, ncalls,
                   last_bonus, steps>>

\* one turn of the while loop: param is the quaternion drawn, val the pose
\* returned (<<>> while the loop goes on)
sample_goal_draw(angles) ==
    LET q == euler_to_quaternion(angles[1], angles[2], angles[3])
        z_axis == ZAxisOf(q)
    IN  /\ pc = "sample_loop"
        /\ angles \in random_euler_angles
        /\ IF GoalOrientationOk(z_axis)
           THEN /\ pc' = "idle"
                /\ goal_pos' = <<>>
                /\ ret' = [op |-> "_sample_goal", param |-> q, val |-> goal_pos \o q]
           ELSE /\ pc' = "sample_loop"
                /\ goal_pos' = goal_pos
                /\ ret' = [op |-> "_sample_goal", param |-> q, val |-> <<>>]
        /\ UNCHANGED <<goal_is_callers, random_start, pos_rewards, quat_rewards, bonus_rewards,
                       goal, qpos, eef, link_z, dirty, target_pose, attempts,
                       ncalls, last_bonus, steps>>

-----------------------------------------------------------------------------
(* _reset_sim, lines 224-246 *)

\* Joint configurations np.random.uniform can draw, each with what
\* mj_forward then reports for it.
JointCandidates ==
    { [q |-> <<310, -310, 0, 100, -200, 314>>, eef |-> PoseFree, link_z |-> LinksClear],
      [q |-> <<0, 0, 0, 0, 0, 0>>, eef |-> PoseFree, link_z |-> LinksInTable],
      [q |-> <<157, -157, 157, 0, 0, 0>>, eef |-> PoseCone, link_z |-> LinksClear],
      [q |-> <<-100, 50, -314, 200, 0, 30>>, eef |-> PoseLow, link_z |-> LinksClear] }

robot_in_table(lz) == \E i \in 1..6 : lz[i] < table_size[3]

\* the acceptance test without the table check
ResetAcceptsIgnoringTable(e, lz) == validate_initial_qpos(e).valid

ResetAccepts(e, lz) == validate_initial_qpos(e).valid /\ ~robot_in_table(lz)

reset_sim_start ==
    /\ pc = "idle"
    /\ qpos' = initial_joint_values
    /\ dirty' = TRUE
    /\ attempts' = 0
    /\ IF random_start
       THEN /\ pc' = "reset_loop"
            /\ ret' = [op |-> "_reset_sim", param |-> 0, val |-> FALSE]
       ELSE /\ pc' = "idle"
            /\ ret' = [op |-> "_reset_sim", param |-> 0, val |-> TRUE]
    /\ UNCHANGED <<goal_is_callers, random_start, pos_rewards, quat_rewards, bonus_rewards, goal,
                   eef, link_z, target_pose, goal_pos, ncalls, last_bonus, steps>>

\* one turn of the while loop: param counts the draws so far, val is TRUE
\* once the method has returned
reset_sim_draw(c) ==
    /\ pc = "reset_loop"
    /\ qpos' = c.q
    /\ eef' = c.eef
    /\ link_z' = c.link_z
    /\ dirty' = FALSE
    /\ IF ResetAccepts(c.eef, c.link_z)
       THEN /\ pc' = "idle"
            /\ attempts' = 0
            /\ ret' = [op |-> "_reset_sim", param |-> Min(attempts + 1, AttemptCap + 1),
                       val |-> TRUE]
       ELSE /\ pc' = "reset_loop"
            /\ attempts' = Min(attempts + 1, AttemptCap + 1)
            /\ ret' = [op |-> "_reset_sim", param |-> Min(attempts + 1, AttemptCap + 1),
                       val |-> FALSE]
    /\ UNCHANGED <<goal_is_callers, random_start, pos_rewards, quat_rewards, bonus_rewards, goal,
                   target_pose, goal_pos, ncalls, last_bonus, steps>>

-----------------------------------------------------------------------------
(* Inputs the operations are explored with *)

Goal1 == <<60, 40, 86, 5, 12, 0, 0>>
Goal2 == <<-40, -18, 136, 0, 0, 12, -5>>
Achieved1 == <<60, 40, 87, -5, -12, 0, 0>>

GoalInputs == { Goal1, Goal2 }
AchievedInputs == { Achieved1, PoseFree }
ValidateInputs == { PoseFree, PoseCone, PoseLow, PoseTop, <<>> }
ActionInputs == { <<1, 1, 1, 1, 1, 1>>, <<-1, 0, 1, -1, 0, 1>> }
AngleInputs == { << <<13, 0>>, <<1, 0>>, <<1, 0>> >>,
                 << <<5, 12>>, <<1, 0>>, <<1, 0>> >>,
                 << <<12, 5>>, <<0, 1>>, <<1, 0>> >> }

Next ==
    \/ \E a \in AchievedInputs : compute_reward(a, Goal1)
    \/ \E a \in AchievedInputs, g \in GoalInputs : is_success(a, g)
    \/ \E p \in ValidateInputs : validate(p)
    \/ \E g \in GoalInputs : set_goal(g)
    \/ get_obs
    \/ caller_writes_obs(PoseFree)
    \/ \E v \in GoalInputs : caller_writes_goal(v)
    \/ render_callback
    \/ \E action \in ActionInputs : set_action(action)
    \/ step_callback
    \/ \E ux \in {-50, 50}, uz \in {10, 60} : sample_goal_start(ux, 24, uz)
    \/ \E angles \in AngleInputs : sample_goal_draw(angles)
    \/ reset_sim_start
    \/ \E c \in JointCandidates : reset_sim_draw(c)

Spec == Init /\ [][Next]_vars

-----------------------------------------------------------------------------
(* The pure parts on wider inputs *)

RollQuats ==
    { euler_to_quaternion(r, <<1, 0>>, <<1, 0>>) : r \in RollAngles }

ValidateGrid ==
    { <<x, y, z>> \o q :
        x \in {-41, -40, 60, 61}, y \in {-19, -18, 40, 41},
        z \in {85, 86, 135, 136, 137}, q \in RollQuats }
    \cup { <<>>, <<10, 16, 100>>, <<10, 16, 100, 13, 0, 0>>,
           <<10, 16, 100, 13, 0, 0, 0, 0>> }

NextValidate == \E p \in ValidateGrid : validate(p)

SpecValidate == Init /\ [][NextValidate]_vars

NextSample ==
    \/ \E ux \in {-50, 0, 50}, uy \in {-34, 0, 24}, uz \in {10, 35, 60} :
          sample_goal_start(ux, uy, uz)
    \/ \E angles \in random_euler_angles : sample_goal_draw(angles)

SpecSample == Init /\ [][NextSample]_vars

RewardGoals ==
    { Goal1, <<10, 16, 100, 12, 3, 4, 0>>,
      <<55, 16, 100, 12, 3, 4, 0>> }
RewardAchieved ==
    { Goal1, Achieved1, PoseFree,
      <<10, 16, 101, 12, 4, 3, 0>>,        \* 1 cm off, 0.994 in orientation
      <<10, 19, 100, -12, -3, -4, 0>>,     \* 3 cm off, same rotation negated
      <<10, 16, 100, 12, 5, 0, 0>>,        \* in place, 0.941 in orientation
      <<12, 16, 100, 12, 3, 4, 0>>,        \* 2 cm off in x, doubles 2 cm or more apart
      <<10, 16, 102, -12, -3, -4, 0>>,     \* 2 cm off in z, doubles 2 cm or more apart
      <<57, 16, 100, 12, 3, 4, 0>>,        \* 2 cm off the third goal on the
                                           \* grid, less in doubles
      <<260, 16, 100, 0, 0, 0, 13>> }      \* more than 2 m off

NextReward ==
    \/ \E a \in RewardAchieved, g \in RewardGoals : compute_reward(a, g)
    \/ \E a \in RewardAchieved, g \in RewardGoals : is_success(a, g)

SpecReward == Init /\ [][NextReward]_vars

-----------------------------------------------------------------------------
(* Properties *)

\* The workspace box and the orientation cone as the specification words them
InWorkspaceBox(p) ==
    /\ table_pos[1] - table_size[1] \div 2 + 10 <= p[1]
    /\ p[1] <= table_pos[1] + table_size[1] \div 2 - 10
    /\ table_pos[2] - table_size[2] \div 2 <= p[2]
    /\ p[2] <= table_pos[2] + table_size[2] \div 2 - 10
    /\ table_pos[3] + table_size[3] \div 2 + 10 <= p[3]
    /\ p[3] <= table_pos[3] + table_size[3] \div 2 + 60

InOrientationCone(q) ==
    LET z == ZAxisOf(q)
    IN  /\ 2 * z[3] < -RotScale
        /\ z[2] < 0 /\ 2 * z[2] * z[2] > RotScale * RotScale

Last(seq) == seq[Len(seq)]

IsPrefix(a, b) == Len(a) <= Len(b) /\ SubSeq(b, 1, Len(a)) = a

Validated == ret.op = "validate_initial_qpos"

\* C1: for a 7-element pose inside the workspace box, validate_initial_qpos
\* returns True if and only if the pose's z axis lies in the orientation cone
\* (points forward and downward).
C1_ValidIffInCone ==
    (Validated /\ Len(ret.param) = 7 /\ InWorkspaceBox(ret.param))
        => (ret.val.valid <=> InOrientationCone(QuatOf(ret.param)))

\* C2: every turn of _sample_goal's loop returns exactly when the quaternion
\* it drew lies in the orientation cone, and then returns the position drawn
\* before the loop, inside the workspace box, with that quaternion; a rejected
\* draw leaves the position as it is.
C2_SampleGoalFirstInCone ==
    [][ pc = "sample_loop" =>
          /\ InWorkspaceBox(goal_pos)
          /\ IF InOrientationCone(ret'.param)
             THEN /\ pc' = "idle"
                  /\ PosOf(ret'.val) = goal_pos
                  /\ QuatOf(ret'.val) = ret'.param
                  /\ Len(ret'.val) = 7
             ELSE /\ pc' = "sample_loop"
                  /\ goal_pos' = goal_pos ]_vars

C2_Witness ==
    /\ ret.op = "_sample_goal" /\ pc = "idle"
    /\ Len(ret.val) = 7
    /\ InOrientationCone(QuatOf(ret.val))
    /\ ret.val[3] = 136

\* C3: _is_success returns false when compute_reward was never called, and
\* otherwise true exactly when the bonus term of the most recent
\* compute_reward call is 1, whatever its arguments.
C3_SuccessIsLastBonus ==
    ret.op = "_is_success" => (ret.val <=> (ncalls > 0 /\ last_bonus = 1))

C3_Witness ==
    /\ ret.op = "_is_success" /\ ret.val
    /\ ncalls = 2 /\ bonus_rewards[1] = 0

\* C4: when _reset_sim has returned, the three reward histories are empty.
C4_HistoryClearedAtReset ==
    (ret.op = "_reset_sim" /\ ret.val)
        => (pos_rewards = <<>> /\ quat_rewards = <<>> /\ bonus_rewards = <<>>)

\* C5: with random_start, _reset_sim returns only with an end-effector pose
\* that validate_initial_qpos accepts and with none of the six links below
\* the table height, both belonging to the joint configuration left in qpos.
C5_ResetAcceptsOnlyValid ==
    (ret.op = "_reset_sim" /\ ret.val /\ random_start) =>
        /\ validate_initial_qpos(eef).valid
        /\ \A i \in 1..6 : link_z[i] >= table_size[3]
        /\ ~dirty
        /\ \E c \in JointCandidates : c.q = qpos /\ c.eef = eef /\ c.link_z = link_z

C5_Witness ==
    ret.op = "_reset_sim" /\ ret.val /\ random_start /\ ret.param >= 2

\* C6: validate_initial_qpos returns False without evaluating the orientation
\* for an input that has not 7 elements and for a 7-element pose whose
\* position is outside the workspace box.
C6_RejectsShapeAndBox ==
    (Validated /\ (Len(ret.param) # 7 \/ ~InWorkspaceBox(ret.param)))
        => (~ret.val.valid /\ ~ret.val.orient)

C6_Witness ==
    /\ Validated /\ Len(ret.param) = 7
    /\ ret.param[3] = 137 /\ InWorkspaceBox(<<ret.param[1], ret.param[2], 100>>)
    /\ ValidateOrientation(ZAxisOf(QuatOf(ret.param)))
    /\ ~ret.val.valid

\* C7: compute_reward returns, and appends to the three histories, the same
\* as it does for the achieved pose with its quaternion negated.
C7_RewardDoubleCover ==
    ret.op = "compute_reward" =>
        LET a == ret.param[1]
            g == ret.param[2]
            m == PosOf(a) \o Neg4(QuatOf(a))
            pr == PosReward(m, g)
            qr == QuatReward(m, g)
            br == BonusReward(PosRewardOverThreshold(m, g), qr)
        IN  /\ ret.val = RewardValue(pr, qr, br)
            /\ Last(pos_rewards) = pr
            /\ Last(quat_rewards) = qr
            /\ Last(bonus_rewards) = br

C7_Witness ==
    /\ ret.op = "compute_reward"
    /\ Dot4(QuatOf(ret.param[2]), QuatOf(ret.param[1])) < 0
    /\ Last(bonus_rewards) = 1

\* C8: the three histories are empty at construction, have the same length,
\* the number of compute_reward calls so far, hold only 0 or 1 as bonus, and
\* every step keeps the entries there are: a compute_reward call appends one
\* entry to each, any other step leaves them as they are.
C8_HistoriesParallel ==
    [][ /\ Len(pos_rewards) = ncalls
        /\ Len(quat_rewards) = ncalls
        /\ Len(bonus_rewards) = ncalls
        /\ Len(pos_rewards') = ncalls'
        /\ Len(quat_rewards') = ncalls'
        /\ Len(bonus_rewards') = ncalls'
        /\ \A i \in 1..Len(bonus_rewards') : bonus_rewards'[i] \in {0, 1}
        /\ IsPrefix(pos_rewards, pos_rewards')
        /\ IsPrefix(quat_rewards, quat_rewards')
        /\ IsPrefix(bonus_rewards, bonus_rewards')
        /\ ncalls' = IF ret'.op = "compute_reward" THEN ncalls + 1 ELSE ncalls
        /\ (ret.op = "__init__" => ncalls = 0) ]_vars

C8_Witness ==
    /\ Len(pos_rewards) = 2 /\ Len(quat_rewards) = 2 /\ Len(bonus_rewards) = 2
    /\ bonus_rewards[1] = 1 /\ bonus_rewards[2] = 0
    /\ pos_rewards[1] # pos_rewards[2]

\* C9: _reset_sim with random_start returns within the attempt cap with an
\* end-effector pose that validate_initial_qpos accepts; without random_start
\* it returns at once with the joints at the initial configuration.
C9_ResetWithinCap ==
    ret.op = "_reset_sim" =>
        IF random_start
        THEN /\ ret.param <= AttemptCap
             /\ ret.val => validate_initial_qpos(eef).valid
        ELSE ret.val /\ ret.param = 0 /\ qpos = initial_joint_values

\* C10 as stated: only set_goal changes the goal, and _get_obs returns as
\* desired_goal an array of its own equal to the goal.
C10_DesiredGoalEqualsGoal ==
    [][ /\ goal' # goal => ret'.op = "set_goal"
        /\ ret'.op = "_get_obs"
              => /\ ret'.val.desired_goal.value = goal
                 /\ ~ret'.val.desired_goal.shares ]_vars

\* C10: no method other than set_goal changes the goal, and the one other
\* way it changes is a write by the caller into the array it gave set_goal,
\* which set_goal keeps without copying; _get_obs returns as desired_goal an
\* array of its own, equal to the goal once a goal is set and seven zeros
\* while the goal is still the empty array, so that a write into it leaves
\* the goal as it is; _render_callback shows the goal as it is.
C10_GoalKeptByMethods ==
    [][ /\ goal' # goal
              => \/ ret'.op = "set_goal"
                 \/ ret'.op = "caller_write_goal" /\ goal_is_callers
        /\ goal_is_callers' # goal_is_callers => ret'.op = "set_goal"
        /\ ret'.op = "_get_obs"
              => /\ ret'.val.desired_goal.value
                       = IF Len(goal) > 0 THEN goal ELSE Zeros7
                 /\ ~ret'.val.desired_goal.shares
        /\ (ret'.op = "_render_callback" /\ Len(goal) > 0)
              => target_pose' = goal ]_vars

C10_Witness ==
    /\ ret.op = "caller_write"
    /\ Len(goal) = 7
    /\ ret.val.desired_goal.value # goal

-----------------------------------------------------------------------------
(* Termination of the reset loop, given that a configuration the loop      *)
(* accepts keeps being drawn: np.random.uniform gives every open set of    *)
(* configurations a positive chance at each turn.                          *)

NextReset ==
    \/ reset_sim_start
    \/ \E c \in JointCandidates : reset_sim_draw(c)

AcceptingDraw ==
    \E c \in JointCandidates : ResetAccepts(c.eef, c.link_z) /\ reset_sim_draw(c)

SpecFairReset == Init /\ [][NextReset]_vars /\ SF_vars(AcceptingDraw)

ResetTerminates == (pc = "reset_loop") ~> (pc = "idle")

=============================================================================
